---- MODULE Spec2Model ----
(***************************************************************************)
(* Model of beacon_placer.py: coordinate_placement(count, offset, minimum, *)
(* maximum) and the helpers it calls.                                      *)
(*                                                                         *)
(* Numbers.  The program computes in IEEE doubles; the model computes in   *)
(* fixed point, a real v being the integer round(v * Scale).  Distances    *)
(* are carried as their squares (sqrt is monotone, so every comparison of  *)
(* two distances is the comparison of their squares).  The library values  *)
(* the program reads (tan, cos, sin of the angles it builds) are tabulated *)
(* from the doubles CPython returns.  Where the exact value of an          *)
(* expression falls on a value the program compares it with (an angle that *)
(* is a multiple of 90 degrees, a distance that is an integer), the side   *)
(* on which the double falls is tabulated too (FloatErr, FloatDevTable).   *)
(***************************************************************************)
EXTENDS Integers, Sequences, FiniteSets, TLC

\* ---- bounds of the explored inputs ----
MaxCount == 12
MaxRadius == 4
\* counts beyond MaxCount whose last angle (360/count)*count is not the
\* double 360.0: 359.99999999999994 for 39, 360.00000000000006 for 169
FloatCounts == {39, 169}
Counts == (1..MaxCount) \cup FloatCounts
Radii == 1..MaxRadius
Offsets == {<<0, 0>>, <<5, 5>>, <<-3, 2>>}

\* ---- fixed point ----
Scale == 10 * 10 * 10
Cap == 32 * Scale
Huge == 2 * Cap * Cap

Abs(v) == IF v < 0 THEN -v ELSE v

MinOf(a, b) == IF a < b THEN a ELSE b

\* a / b rounded to the nearest integer
RoundDiv(a, b) ==
    IF b < 0 THEN (2 * (-a) + (-b)) \div (2 * (-b))
    ELSE (2 * a + b) \div (2 * b)

\* math.floor and math.ceil of a fixed-point value, as fixed-point values
floor(v) == (v \div Scale) * Scale

ceil(v) == -(((-v) \div Scale) * Scale)

\* round(num) of Python 3: nearest integer, ties to the even one
round(v) ==
    LET q == v \div Scale
        r == v % Scale
    IN  IF 2 * r < Scale THEN q
        ELSE IF 2 * r > Scale THEN q + 1
        ELSE IF q % 2 = 0 THEN q ELSE q + 1

\* range(lower, upper, step) for step 1 or -1, as a sequence
range(lower, upper, step) ==
    LET n == IF step > 0
             THEN (IF upper > lower THEN upper - lower ELSE 0)
             ELSE (IF lower > upper THEN lower - upper ELSE 0)
    IN  [j \in 1..n |-> lower + (j - 1) * step]

\* ---- library values ----
\* round(tan(radians((360 / c) * k)) * Scale) for k = 1..c, clipped to
\* +-1000 * Scale (the clipped entries belong to axis angles, whose tangent
\* the program never takes)
TanTable(c) ==
    CASE c = 1 ->
           <<0>>
      [] c = 2 ->
           <<0, 0>>
      [] c = 3 ->
           <<-1732, 1732, 0>>
      [] c = 4 ->
           <<1000000, 0, 1000000, 0>>
      [] c = 5 ->
           <<3078, -727, 727, -3078, 0>>
      [] c = 6 ->
           <<1732, -1732, 0, 1732, -1732, 0>>
      [] c = 7 ->
           <<1254, -4381, -482, 482, 4381, -1254, 0>>
      [] c = 8 ->
           <<1000, 1000000, -1000, 0, 1000, 1000000, -1000, 0>>
      [] c = 9 ->
           <<839, 5671, -1732, -364, 364, 1732, -5671, -839, 0>>
      [] c = 10 ->
           <<727, 3078, -3078, -727, 0, 727, 3078, -3078, -727, 0>>
      [] c = 11 ->
           <<643, 2190, -6955, -1154, -294, 294, 1154, 6955, -2190, -643, 0>>
      [] c = 12 ->
           <<577, 1732, 1000000, -1732, -577, 0, 577, 1732, 1000000, -1732, -577, 0>>
      [] c = 13 ->
           <<525, 1449, 8236, -2637, -886, -246, 246, 886, 2637, -8236, -1449, -525, 0>>
      [] c = 14 ->
           <<482, 1254, 4381, -4381, -1254, -482, 0, 482, 1254, 4381, -4381, -1254, -482, 0>>
      [] c = 39 ->
           <<163, 334, 525, 751, 1041, 1449, 2107, 3452, 8236, -24815, -4898, -2637, -1732, -1225,
           -886, -632, -426, -246, -81, 81, 246, 426, 632, 886, 1225, 1732, 2637, 4898, 24815, -8236,
           -3452, -2107, -1449, -1041, -751, -525, -334, -163, 0>>
      [] c = 169 ->
           <<37, 74, 112, 150, 188, 227, 266, 307, 348, 390, 433, 478, 525, 573, 624, 677, 732, 791,
           853, 920, 991, 1067, 1150, 1240, 1339, 1449, 1571, 1708, 1863, 2042, 2250, 2496, 2792,
           3157, 3620, 4226, 5058, 6276, 8236, 11926, 21502, 107586, -35854, -15348, -9747, -7126,
           -5604, -4606, -3901, -3374, -2965, -2637, -2367, -2142, -1949, -1783, -1637, -1508, -1393,
           -1289, -1194, -1108, -1028, -955, -886, -822, -761, -704, -650, -598, -549, -501, -456,
           -411, -369, -327, -286, -246, -207, -169, -131, -93, -56, -19, 19, 56, 93, 131, 169, 207,
           246, 286, 327, 369, 411, 456, 501, 549, 598, 650, 704, 761, 822, 886, 955, 1028, 1108,
           1194, 1289, 1393, 1508, 1637, 1783, 1949, 2142, 2367, 2637, 2965, 3374, 3901, 4606, 5604,
           7126, 9747, 15348, 35854, -107586, -21502, -11926, -8236, -6276, -5058, -4226, -3620,
           -3157, -2792, -2496, -2250, -2042, -1863, -1708, -1571, -1449, -1339, -1240, -1150, -1067,
           -991, -920, -853, -791, -732, -677, -624, -573, -525, -478, -433, -390, -348, -307, -266,
           -227, -188, -150, -112, -74, -37, 0>>

\* sign of the double sqrt(x*x + y*y) minus the integer 2n it approximates,
\* for n = 1..12, by the angle in degrees (multiples of 30 off the axes)
FloatDevTable(deg) ==
    CASE deg = 30 -> <<0, 0, 0, 0, 0, 0, 1, 0, 0, 0, 0, 0>>
      [] deg = 60 -> <<-1, -1, -1, -1, -1, -1, -1, -1, -1, -1, -1, -1>>
      [] deg = 120 -> <<1, 1, 1, 1, 1, 1, 1, 1, 1, 1, 1, 1>>
      [] deg = 150 -> <<0, 0, 0, 0, 0, 0, 1, 0, 0, 0, 0, 0>>
      [] deg = 210 -> <<-1, -1, -1, -1, -1, -1, -1, -1, -1, -1, -1, -1>>
      [] deg = 240 -> <<-1, -1, -1, -1, -1, -1, -1, -1, -1, -1, -1, -1>>
      [] deg = 300 -> <<-1, -1, -1, -1, 0, -1, -1, -1, -1, 0, -1, -1>>
      [] deg = 330 -> <<-1, -1, -1, -1, -1, -1, -1, -1, -1, -1, -1, -1>>

tan_radians(c, k) == TanTable(c)[k]

\* the program's `angle == 0` on the double tan(radians(a)): for a > 0 the
\* double is never 0.0 (radians(180) is not pi), so a table entry 0 stands
\* for a nonzero double smaller than the resolution
tan_is_zero(c, k) == FALSE

\* sign of fl(fl(360 / c) * k) - 360 * k / c where the exact product is a
\* multiple of 90; it is 0 for every c <= 38
FloatErr(c, k) ==
    IF c = 39 /\ k = 39 THEN -1
    ELSE IF c = 169 /\ k = 169 THEN 1
    ELSE 0

\* angle_deg = (360 / count) * (i + 1) is kept as the index k = i + 1; these
\* are the program's comparisons of that double with a whole number d
angle_eq(c, k, d) == 360 * k = d * c /\ FloatErr(c, k) = 0

angle_lt(c, k, d) == 360 * k < d * c \/ (360 * k = d * c /\ FloatErr(c, k) < 0)

\* cos(radians(d)) and sin(radians(d)) for d in 0, 90, 180, 270, 360, in
\* units of epsilon and clipped to +-TrigCap (6.1e-17 is 0, 1.0 is TrigCap)
epsilon == 1

TrigCap == 10 * 10 * 10

cos_radians(d) ==
    CASE d = 0 -> TrigCap [] d = 90 -> 0 [] d = 180 -> -TrigCap
      [] d = 270 -> 0 [] d = 360 -> TrigCap

sin_radians(d) ==
    CASE d = 0 -> 0 [] d = 90 -> TrigCap [] d = 180 -> 0
      [] d = 270 -> -TrigCap [] d = 360 -> 0

\* which scan of angle k meets integer distances exactly: tan^2 = 3 makes
\* the x-scan point (x, tan*x) lie at distance 2|x|, tan^2 = 1/3 makes the
\* y-scan point (y/tan, y) lie at distance 2|y|; no other rational angle
\* puts a scanned point at an integer distance
ExactScan(c, k) ==
    LET r == (360 * k) % (180 * c)
    IN  IF r = 60 * c \/ r = 120 * c THEN "x"
        ELSE IF r = 30 * c \/ r = 150 * c THEN "y"
        ELSE "none"

\* sign of the computed double distance minus 2n, for the exact scan of
\* angle k at |coordinate| = n
FloatDev(c, k, n) == FloatDevTable((360 * k) \div c)[n]

\* ---- geometry primitives ----
\* squared distance of two fixed-point points; saturates at Huge
distance_between_two_points(c1, c2) ==
    LET dx == c2[1] - c1[1]
        dy == c2[2] - c1[2]
    IN  IF Abs(dx) >= Cap \/ Abs(dy) >= Cap THEN Huge
        ELSE dx * dx + dy * dy

\* squared distance to the nearest of the four surrounding lattice points
distance_to_centerpoint(x, y) ==
    IF x % Scale = 0 /\ y % Scale = 0 THEN 0
    ELSE
    LET round_up_x == ceil(x)
        round_up_y == ceil(y)
        round_down_x == floor(x)
        round_down_y == floor(y)
        distance_tr == (x - round_up_x) * (x - round_up_x) + (y - round_up_y) * (y - round_up_y)
        distance_tl == (x - round_down_x) * (x - round_down_x) + (y - round_up_y) * (y - round_up_y)
        distance_bl == (x - round_down_x) * (x - round_down_x) + (y - round_down_y) * (y - round_down_y)
        distance_br == (x - round_up_x) * (x - round_up_x) + (y - round_down_y) * (y - round_down_y)
    IN  MinOf(MinOf(distance_tr, distance_bl), MinOf(distance_tl, distance_br))

\* ---- candidate generator ----
\* the double `distance` of a scanned point as the generators compare it:
\* <<squared distance, side of the double>>, ordered lexicographically
GenDistance(c, k, scan, n, p) ==
    IF ExactScan(c, k) = scan
    THEN <<(2 * Abs(n) * Scale) * (2 * Abs(n) * Scale), FloatDev(c, k, Abs(n))>>
    ELSE <<distance_between_two_points(<<0, 0>>, p), 0>>

DistLess(a, b) == a[1] < b[1] \/ (a[1] = b[1] /\ a[2] < b[2])

Bound(b) == <<(Abs(b) * Scale) * (Abs(b) * Scale), 0>>

XPoint(c, k, x) == <<x * Scale, tan_radians(c, k) * x>>

YPoint(c, k, y) ==
    IF tan_is_zero(c, k) THEN <<0, y * Scale>>
    ELSE IF tan_radians(c, k) = 0 THEN <<Cap, y * Scale>>
    ELSE <<RoundDiv(y * Scale * Scale, tan_radians(c, k)), y * Scale>>

x_generator(lower, upper, lower_bounds, upper_bounds, c, k, step) ==
    LET xs == range(lower, upper, step)
        Keep(x) ==
            LET distance == GenDistance(c, k, "x", x, XPoint(c, k, x))
            IN  DistLess(distance, Bound(upper_bounds)) /\ DistLess(Bound(lower_bounds), distance)
        kept == SelectSeq(xs, Keep)
    IN  [j \in 1..Len(kept) |-> XPoint(c, k, kept[j])]

\* y_generator with the bounds compared by <= and >=
y_generator_nonstrict(lower, upper, lower_bounds, upper_bounds, c, k, step) ==
    LET ys == range(lower, upper, step)
        Keep(y) ==
            LET distance == GenDistance(c, k, "y", y, YPoint(c, k, y))
            IN  ~DistLess(Bound(upper_bounds), distance) /\ ~DistLess(distance, Bound(lower_bounds))
        kept == SelectSeq(ys, Keep)
    IN  [j \in 1..Len(kept) |-> YPoint(c, k, kept[j])]

y_generator(lower, upper, lower_bounds, upper_bounds, c, k, step) ==
    LET ys == range(lower, upper, step)
        Keep(y) ==
            LET distance == GenDistance(c, k, "y", y, YPoint(c, k, y))
            IN  DistLess(distance, Bound(upper_bounds)) /\ DistLess(Bound(lower_bounds), distance)
        kept == SelectSeq(ys, Keep)
    IN  [j \in 1..Len(kept) |-> YPoint(c, k, kept[j])]

\* the list of the two generators' outputs, or <<>> for the None the
\* function returns when no branch is taken
coordinate_generator(lower_bounds, upper_bounds, c, k) ==
    IF angle_lt(c, k, 90) THEN
        << x_generator(1, upper_bounds, lower_bounds, upper_bounds, c, k, 1),
           y_generator(1, upper_bounds, lower_bounds, upper_bounds, c, k, 1) >>
    ELSE IF angle_lt(c, k, 180) THEN
        << x_generator(-1, -upper_bounds, lower_bounds, upper_bounds, c, k, -1),
           y_generator(1, upper_bounds, lower_bounds, upper_bounds, c, k, 1) >>
    ELSE IF angle_lt(c, k, 270) THEN
        << x_generator(-1, -upper_bounds, lower_bounds, upper_bounds, c, k, -1),
           y_generator(-1, -upper_bounds, lower_bounds, upper_bounds, c, k, -1) >>
    ELSE IF angle_lt(c, k, 360) THEN
        << x_generator(1, upper_bounds, lower_bounds, upper_bounds, c, k, 1),
           y_generator(-1, -upper_bounds, lower_bounds, upper_bounds, c, k, -1) >>
    ELSE << >>

\* ---- placement engine ----
\* custom_sort with the two keys in the other order
custom_sort_swapped(item) ==
    <<distance_between_two_points(<<0, 0>>, item[2]), item[1]>>

\* the sort key of an item <<tolerance, coordinates>>
custom_sort(item) ==
    LET p_key == item[1]
        coordinates == item[2]
        s_key == distance_between_two_points(<<0, 0>>, coordinates)
    IN  <<p_key, s_key>>

KeyLeq(a, b) == a[1] < b[1] \/ (a[1] = b[1] /\ a[2] <= b[2])

\* list.sort(key=custom_sort): stable, ascending
RECURSIVE sort(_)
sort(arr) ==
    IF arr = << >> THEN << >>
    ELSE
    LET e == arr[Len(arr)]
        s == sort(SubSeq(arr, 1, Len(arr) - 1))
        n == Cardinality({j \in 1..Len(s) : KeyLeq(custom_sort(s[j]), custom_sort(e))})
    IN  SubSeq(s, 1, n) \o <<e>> \o SubSeq(s, n + 1, Len(s))

\* list(chain.from_iterable(points))
chain(gens) == gens[1] \o gens[2]

\* list(zip(tolerance_array, points))
zip(pts) == [j \in 1..Len(pts) |-> <<distance_to_centerpoint(pts[j][1], pts[j][2]), pts[j]>>]

is_axis(c, k) == \E d \in {0, 90, 180, 270, 360} : angle_eq(c, k, d)

axis_deg(c, k) == CHOOSE d \in {0, 90, 180, 270, 360} : angle_eq(c, k, d)

\* axis_append with a tolerance of 0 in place of epsilon
axis_append_exact(d, lower_bounds) ==
    LET x == cos_radians(d)
        y == sin_radians(d)
    IN  IF Abs(y) < 0
        THEN (IF x > 0 THEN << <<lower_bounds, 0>> >> ELSE << <<-lower_bounds, 0>> >>)
        ELSE IF Abs(x) < 0
        THEN (IF y > 0 THEN << <<0, lower_bounds>> >> ELSE << <<0, -lower_bounds>> >>)
        ELSE << >>

\* what the axis branch appends to result
axis_append(d, lower_bounds) ==
    LET x == cos_radians(d)
        y == sin_radians(d)
    IN  IF Abs(y) < epsilon
        THEN (IF x > 0 THEN << <<lower_bounds, 0>> >> ELSE << <<-lower_bounds, 0>> >>)
        ELSE IF Abs(x) < epsilon
        THEN (IF y > 0 THEN << <<0, lower_bounds>> >> ELSE << <<0, -lower_bounds>> >>)
        ELSE << >>

\* apply_offset adding offset[0] to both coordinates
apply_offset_first(res, off) == [j \in 1..Len(res) |-> <<res[j][1] + off[1], res[j][2] + off[1]>>]

apply_offset(res, off) == [j \in 1..Len(res) |-> <<res[j][1] + off[1], res[j][2] + off[2]>>]

\* final_outcome with the commented-out uniqueness check enabled
final_outcome_unique(res, c) ==
    IF Cardinality({res[j] : j \in 1..Len(res)}) # Len(res) THEN "Warning"
    ELSE IF Len(res) # c THEN "Warning" ELSE "returned"

\* the length check that ends the function (lines 276-282; the uniqueness
\* check above it is commented out)
final_outcome(res, c) == IF Len(res) # c THEN "Warning" ELSE "returned"

\* the body of the loop for a non-axis angle (lines 264-271): the pool it
\* builds, what it appends to result, and the exception it raises if any
general_iteration(c, k, lower_bounds, upper_bounds) ==
    LET gens == coordinate_generator(lower_bounds, upper_bounds, c, k)
    IN  IF gens = << >>
        THEN [raised |-> "TypeError", points |-> << >>, appended |-> << >>]
        ELSE LET arr == sort(zip(chain(gens)))
             IN  IF arr = << >>
                 THEN [raised |-> "IndexError", points |-> << >>, appended |-> << >>]
                 ELSE [raised |-> "none", points |-> chain(gens),
                       appended |-> << <<round(arr[1][2][1]), round(arr[1][2][2])>> >>]

\* the body of the loop for angle k, axis or not (lines 238-271)
iteration(c, k, lower_bounds, upper_bounds) ==
    IF is_axis(c, k)
    THEN [raised |-> "none", points |-> << >>,
          appended |-> axis_append(axis_deg(c, k), lower_bounds)]
    ELSE general_iteration(c, k, lower_bounds, upper_bounds)

\* the whole call as a function of its arguments: [o |-> outcome, r |-> result]
\* (the loop stops at the first iteration that raises)
coordinate_placement(c, off, lower_bounds, upper_bounds) ==
    LET Raises(k) == iteration(c, k, lower_bounds, upper_bounds).raised # "none"
        raising == {k \in 1..c : Raises(k)}
        Appends(k) == iteration(c, k, lower_bounds, upper_bounds).appended # << >>
        appending == SelectSeq([k \in 1..c |-> k], Appends)
        res == [j \in 1..Len(appending) |->
                   iteration(c, appending[j], lower_bounds, upper_bounds).appended[1]]
    IN  IF raising # {}
        THEN [o |-> iteration(c, CHOOSE k \in raising : \A m \in raising : k <= m,
                              lower_bounds, upper_bounds).raised,
              r |-> << >>]
        ELSE [o |-> final_outcome(apply_offset(res, off), c), r |-> apply_offset(res, off)]

VARIABLES count, offset, minimum, maximum, i, angle_deg, points, result, pc, outcome

vars == <<count, offset, minimum, maximum, i, angle_deg, points, result, pc, outcome>>

Init ==
    /\ count \in Counts
    /\ offset \in Offsets
    /\ minimum \in Radii
    /\ maximum \in Radii
    /\ i = 0
    /\ angle_deg = 0
    /\ points = << >>
    /\ result = << >>
    /\ pc = "loop"
    /\ outcome = "none"

\* one iteration of the loop on an axis angle (lines 238-262)
AxisCase ==
    /\ pc = "loop"
    /\ i < count
    /\ is_axis(count, i + 1)
    /\ angle_deg' = i + 1
    /\ points' = << >>
    /\ result' = result \o axis_append(axis_deg(count, i + 1), minimum)
    /\ i' = i + 1
    /\ UNCHANGED <<count, offset, minimum, maximum, pc, outcome>>

\* one iteration of the loop on any other angle (lines 238-247, 264-271)
GeneralCase ==
    /\ pc = "loop"
    /\ i < count
    /\ ~is_axis(count, i + 1)
    /\ angle_deg' = i + 1
    /\ LET it == general_iteration(count, i + 1, minimum, maximum)
       IN  /\ points' = it.points
           /\ result' = result \o it.appended
           /\ IF it.raised # "none"
              THEN pc' = "done" /\ outcome' = it.raised /\ i' = i
              ELSE pc' = pc /\ outcome' = outcome /\ i' = i + 1
    /\ UNCHANGED <<count, offset, minimum, maximum>>

\* after the loop: offset, tuples, length check (lines 273-282)
Return ==
    /\ pc = "loop"
    /\ i = count
    /\ result' = apply_offset(result, offset)
    /\ outcome' = final_outcome(result', count)
    /\ pc' = "done"
    /\ UNCHANGED <<count, offset, minimum, maximum, i, angle_deg, points>>

Next == AxisCase \/ GeneralCase \/ Return

Spec == Init /\ [][Next]_vars

\* ---- properties ----
Unoffset(p) == <<p[1] - offset[1], p[2] - offset[2]>>

Norm2(p) == p[1] * p[1] + p[2] * p[2]

\* C1: every call ends either by returning exactly count points or by
\* raising the Warning of the final length check; no other outcome occurs.
C1_ReturnOrWarning ==
    pc = "done" => \/ outcome = "returned" /\ Len(result) = count
                   \/ outcome = "Warning"

\* C2: in a returned result, every point of a non-axis angle, with the
\* offset subtracted, lies at a distance d with minimum < d < maximum.
C2_NonAxisStrictlyInside ==
    outcome = "returned" =>
        \A j \in 1..Len(result) :
            ~is_axis(count, j) =>
                /\ minimum * minimum < Norm2(Unoffset(result[j]))
                /\ Norm2(Unoffset(result[j])) < maximum * maximum

\* C3: in a returned result the points of the angles 90, 180, 270 and 360
\* are (0, minimum), (-minimum, 0), (0, -minimum), (minimum, 0) plus the
\* offset, no pool is generated for them, and the last point of every
\* result is (minimum, 0) plus the offset.
C3_AxisPoints ==
    /\ outcome = "returned" =>
        /\ \A j \in 1..Len(result) :
            /\ angle_eq(count, j, 90) => Unoffset(result[j]) = <<0, minimum>>
            /\ angle_eq(count, j, 180) => Unoffset(result[j]) = <<-minimum, 0>>
            /\ angle_eq(count, j, 270) => Unoffset(result[j]) = <<0, -minimum>>
            /\ angle_eq(count, j, 360) => Unoffset(result[j]) = <<minimum, 0>>
        /\ Unoffset(result[count]) = <<minimum, 0>>
    /\ (angle_deg > 0 /\ is_axis(count, angle_deg)) => points = << >>

\* C4: a call succeeds exactly when the call with offset (0, 0) and the same
\* count, minimum and maximum succeeds, and then its result is that call's
\* result with the offset added to every point.
C4_OffsetIsTranslation ==
    pc = "done" =>
        LET zero == coordinate_placement(count, <<0, 0>>, minimum, maximum)
        IN  /\ (outcome = "returned") <=> (zero.o = "returned")
            /\ outcome = "returned" =>
                /\ Len(result) = Len(zero.r)
                /\ \A j \in 1..Len(result) :
                    result[j] = <<zero.r[j][1] + offset[1], zero.r[j][2] + offset[2]>>

C4_Witness ==
    /\ outcome = "returned"
    /\ offset = <<-3, 2>>
    /\ \E j \in 1..count : ~is_axis(count, j)

\* C5: a call with minimum >= maximum always ends by raising the Warning of
\* the final length check: it never returns and never raises anything else.
C5_InvertedBoundsWarn ==
    (pc = "done" /\ minimum >= maximum) => outcome = "Warning"

\* the sort key of pool member m as the claim states it
PoolKey(m) ==
    <<distance_to_centerpoint(points[m][1], points[m][2]),
      distance_between_two_points(<<0, 0>>, points[m])>>

KeyLess(a, b) == a[1] < b[1] \/ (a[1] = b[1] /\ a[2] < b[2])

\* the loop has just placed a point for a non-axis angle
JustPlaced ==
    /\ pc = "loop"
    /\ angle_deg > 0
    /\ ~is_axis(count, angle_deg)
    /\ points # << >>

\* C6: the point placed for a non-axis angle is the rounding of the earliest
\* pool member whose key (lattice-snap distance, origin distance) is
\* lexicographically minimal in the pool.
C6_BestCandidatePlaced ==
    JustPlaced =>
        \E j \in 1..Len(points) :
            /\ \A m \in 1..Len(points) : ~KeyLess(PoolKey(m), PoolKey(j))
            /\ \A m \in 1..(j - 1) : PoolKey(m) # PoolKey(j)
            /\ result[Len(result)] = <<round(points[j][1]), round(points[j][2])>>

\* the choice matters: the pool member nearest the origin is not the one placed
C6_Witness ==
    /\ JustPlaced
    /\ \E j, m \in 1..Len(points) :
        /\ KeyLess(PoolKey(j), PoolKey(m))
        /\ PoolKey(m)[2] < PoolKey(j)[2]
        /\ <<round(points[m][1]), round(points[m][2])>> # result[Len(result)]

\* the integers of a scan range, in scan order, as the claim states them
ScanRange(negative) ==
    [j \in 1..(maximum - 1) |-> IF negative THEN -j ELSE j]

StrictlyInside(d) ==
    /\ DistLess(Bound(minimum), d)
    /\ DistLess(d, Bound(maximum))

ExpectedX(k) ==
    LET xs == ScanRange(angle_lt(count, k, 270) /\ ~angle_lt(count, k, 90))
        Ok(x) == StrictlyInside(GenDistance(count, k, "x", x, XPoint(count, k, x)))
        kept == SelectSeq(xs, Ok)
    IN  [j \in 1..Len(kept) |-> XPoint(count, k, kept[j])]

ExpectedY(k) ==
    LET ys == ScanRange(~angle_lt(count, k, 180))
        Ok(y) == StrictlyInside(GenDistance(count, k, "y", y, YPoint(count, k, y)))
        kept == SelectSeq(ys, Ok)
    IN  [j \in 1..Len(kept) |-> YPoint(count, k, kept[j])]

\* (a coordinate smaller than half a fixed-point unit reads 0)
InQuadrant(p, k) ==
    /\ (angle_lt(count, k, 90) \/ ~angle_lt(count, k, 270)) => p[1] >= 0
    /\ (~angle_lt(count, k, 90) /\ angle_lt(count, k, 270)) => p[1] <= 0
    /\ angle_lt(count, k, 180) => p[2] >= 0
    /\ ~angle_lt(count, k, 180) => p[2] <= 0
    /\ p # <<0, 0>>

\* a pool was built for the non-axis angle angle_deg
PoolBuilt ==
    /\ angle_deg > 0
    /\ ~is_axis(count, angle_deg)
    /\ outcome # "TypeError"

\* C7: the pool of a non-axis angle is the x-scan points (x, tan*x) over the
\* quadrant's x range followed by the y-scan points (y/tan, y) over its y
\* range, keeping exactly those at a distance strictly between minimum and
\* maximum; every pool point lies in the quadrant of its angle.
C7_PoolContents ==
    PoolBuilt =>
        /\ points = ExpectedX(angle_deg) \o ExpectedY(angle_deg)
        /\ \A m \in 1..Len(points) : InQuadrant(points[m], angle_deg)

\* a scanned point lies exactly on a bound and is left out of a non-empty pool
C7_Witness ==
    /\ PoolBuilt
    /\ points # << >>
    /\ \E n \in 1..(maximum - 1) :
        /\ ExactScan(count, angle_deg) # "none"
        /\ FloatDev(count, angle_deg, n) = 0
        /\ 2 * n \in {minimum, maximum}

HasDuplicate(res) == \E j, m \in 1..Len(res) : j < m /\ res[j] = res[m]

\* C8: a call whose angles were all placed returns its count points also
\* when two of them are the same point; an exception is raised only for an
\* angle without candidates, never for a duplicate.
C8_DuplicatesAccepted ==
    /\ (pc = "done" /\ i = count) => (outcome = "returned" /\ Len(result) = count)
    /\ (pc = "done" /\ i < count) =>
        \/ outcome = "IndexError" /\ points = << >>
        \/ outcome = "TypeError" /\ ~angle_lt(count, angle_deg, 360)

C8_Witness == outcome = "returned" /\ HasDuplicate(result)

\* C9: at the start of iteration i the result holds exactly i points, and
\* when the final length check is reached the result holds count points
\* and the Warning is not raised.
C9_LoopInvariant ==
    /\ pc = "loop" => Len(result) = i
    /\ (pc = "done" /\ outcome \in {"returned", "Warning"}) =>
        (Len(result) = count /\ outcome = "returned")

\* the length check is reached after axis and non-axis iterations
C9_Witness ==
    /\ outcome = "returned"
    /\ \E j, m \in 1..count : is_axis(count, j) /\ ~is_axis(count, m)

\* C10: with maximum - minimum >= 2 every call returns exactly count points
\* without any error.
C10_SufficientGap ==
    (pc = "done" /\ maximum - minimum >= 2) => (outcome = "returned" /\ Len(result) = count)

====
